---- MODULE Spec2Model ----
(***************************************************************************)
(* Model of resize.py: normalisation of a directory of wallpapers to a     *)
(* target aspect ratio.                                                    *)
(*                                                                         *)
(* Conventions.                                                            *)
(*   - a shape is <<height, width>>, as image.shape[:2];                   *)
(*   - a ratio is <<rw, rh>>, as the --ratio argument (ratio[0], ratio[1]  *)
(*     of the code are ratio[1], ratio[2] here);                           *)
(*   - a margin is the exact rational <<num, den>>; the comparisons the    *)
(*     code makes on floats are made on exact rationals;                   *)
(*   - a file on disk is [shape, gen], gen counting the writes it has      *)
(*     received, so that two files are equal iff dimensions and content    *)
(*     are those of the same write;                                        *)
(*   - a function of the code that can raise returns a record with a       *)
(*     status field, "ok" or "error".                                      *)
(* Every directory entry is taken to decode as an image of height >= 1     *)
(* and width >= 1.                                                         *)
(***************************************************************************)
EXTENDS Integers, Sequences, FiniteSets, TLC

\* Bounds of the model.
MaxDim == 3
MaxRatioComp == 3
MaxImages == 2
MaxRuns == 2

\* The default of --margin, 0.17778, as DefaultMarginNum / DefaultMarginDen.
DefaultMarginNum == 17778
DefaultMarginDen == 100000

VARIABLES
    ratio,          \* main: the ratio argument <<rw, rh>>
    margin,         \* main: the margin argument <<num, den>>
    disk,           \* the files of the directory, in sorted filename order
    wallpapers,     \* main: the images loaded at the start of the run
    valid_shapes,   \* main: the result of compute_all_valid_shapes
    pc,             \* main: "start", "loop", "done" or "error"
    idx,            \* main: position of the loop over the images (1-based)
    branch,         \* main: per image, the branch taken in this run
    written,        \* main: per image, whether this run wrote its file
    run,            \* number of the current run of main
    f_ratio,        \* harness: ratio argument
    f_shapes,       \* harness: collection of observed shapes
    f_shape,        \* harness: shape of the image under consideration
    f_pc,           \* harness: "init", "computed", "closest", "biggest", "cropped"
    f_valid,        \* harness: result of compute_all_valid_shapes
    f_closest,      \* harness: result of get_closest_shape
    f_biggest,      \* harness: result of get_biggest_shape_contained_in_image
    f_crop          \* harness: result of crop_image

mainVars == <<ratio, margin, disk, wallpapers, valid_shapes, pc, idx, branch,
              written, run>>
fnVars == <<f_ratio, f_shapes, f_shape, f_pc, f_valid, f_closest, f_biggest,
            f_crop>>
vars == <<mainVars, fnVars>>

----------------------------------------------------------------------------
\* Helpers.

Max(S) == CHOOSE m \in S : \A n \in S : n <= m
Min(S) == CHOOSE m \in S : \A n \in S : m <= n
Abs(n) == IF n < 0 THEN -n ELSE n
Range(s) == {s[j] : j \in DOMAIN s}

Dims == 1..MaxDim
Shapes == Dims \X Dims
Ratios == (1..MaxRatioComp) \X (1..MaxRatioComp)
Margins == {<<0, 1>>, <<DefaultMarginNum, DefaultMarginDen>>, <<1, 2>>}

\* Sequences over S of length lo..hi.
SeqsOf(S, lo, hi) == UNION {[1..n -> S] : n \in lo..hi}

\* seq[n] of Python, n a 0-based index that may be negative.
PyIndex(seq, n) == IF n < 0 THEN seq[Len(seq) + n + 1] ELSE seq[n + 1]

\* The 0-based positions kept by the slice [start : stop] of an axis of
\* length n, as Python computes them (negative bounds count from the end,
\* bounds are clamped to 0..n).
PyClamp(x, n) == IF x < 0 THEN Max({x + n, 0}) ELSE Min({x, n})
PySlice(n, start, stop) ==
    {p \in 0..(n - 1) : PyClamp(start, n) <= p /\ p < PyClamp(stop, n)}

----------------------------------------------------------------------------
\* The functions of resize.py.

\* Variant: an exact comparison of the two ratios, without the truncation.
is_good_ratio_exact(width, height, r) == width * r[2] = height * r[1]

\* width == int(height * ratio[0] / ratio[1])
is_good_ratio(width, height, r) == width = (height * r[1]) \div r[2]

\* abs(width / height - ratio[0] / ratio[1]) <= margin, both sides multiplied
\* by height * ratio[1] * den(margin), all positive.  Within the bounds of the
\* model no difference of two quotients is close enough to a margin of
\* Margins for the rounding of the float operations to change the outcome.
is_resizable(width, height, m, r) ==
    Abs(width * r[2] - r[1] * height) * m[2] <= m[1] * height * r[2]

\* np.max(shapes / ratio).astype(int): each row (height, width) of shapes is
\* divided elementwise by (ratio[0], ratio[1]).
max_ratio(shapes, r) ==
    Max({shapes[j][1] \div r[1] : j \in DOMAIN shapes}
        \cup {shapes[j][2] \div r[2] : j \in DOMAIN shapes})

\* Variant: the row is left in (width, height) order.
Reversed_kept(row) == row

\* row[::-1] of a two-element row.
Reversed(row) == <<row[2], row[1]>>

compute_all_valid_shapes(shapes, r) ==
    [k \in 1..max_ratio(shapes, r) |-> Reversed(<<k * r[1], k * r[2]>>)]

\* np.sum(np.square(valid_shape - bad_shape))
SquaredDistance(valid_shape, bad_shape) ==
    (valid_shape[1] - bad_shape[1]) * (valid_shape[1] - bad_shape[1])
    + (valid_shape[2] - bad_shape[2]) * (valid_shape[2] - bad_shape[2])

\* argmin: the first position (1-based here) of a minimal value.
ArgMin(vs, bad_shape) ==
    Min({j \in DOMAIN vs :
            \A l \in DOMAIN vs :
                SquaredDistance(vs[j], bad_shape) <= SquaredDistance(vs[l], bad_shape)})

get_closest_shape(width, height, vs, r) ==
    IF is_good_ratio(width, height, r)
    THEN [status |-> "ok", value |-> <<height, width>>]
    ELSE IF vs = <<>>
         THEN [status |-> "error", value |-> <<>>]
         ELSE [status |-> "ok", value |-> vs[ArgMin(vs, <<height, width>>)]]

\* np.any(shape < valid_shape)
AnyLess(shape, valid_shape) == shape[1] < valid_shape[1] \/ shape[2] < valid_shape[2]

\* The value of i (0-based) when the for loop ends: the first position where
\* the loop breaks, or the last position when it never breaks.
LoopExitIndex(shape, vs) ==
    IF \E j \in DOMAIN vs : AnyLess(shape, vs[j])
    THEN Min({j \in DOMAIN vs : AnyLess(shape, vs[j])}) - 1
    ELSE Len(vs) - 1

get_biggest_shape_contained_in_image(shape, vs) ==
    IF vs = <<>>
    THEN [status |-> "error", value |-> <<>>]
    ELSE [status |-> "ok", value |-> PyIndex(vs, LoopExitIndex(shape, vs) - 1)]

\* Variant: the larger half of an odd margin goes to the leading edge.
UpLeftMargin_ceil(m) == <<(m[1] + 1) \div 2, (m[2] + 1) \div 2>>

\* up_left_margin = margin // 2
UpLeftMargin(m) == <<m[1] \div 2, m[2] \div 2>>

\* crop_image up to cv2.imwrite: the rows and columns of the image that are
\* kept, and the shape of the image that is written.
crop_image(old_shape, vs) ==
    LET new == get_biggest_shape_contained_in_image(old_shape, vs)
    IN  IF new.status = "error"
        THEN [status |-> "error"]
        ELSE
          LET new_shape == new.value
              m == <<old_shape[1] - new_shape[1], old_shape[2] - new_shape[2]>>
              up_left_margin == UpLeftMargin(m)
              down_right_margin == <<m[1] - up_left_margin[1], m[2] - up_left_margin[2]>>
              left_margin == up_left_margin[1]
              up_margin == up_left_margin[2]
              right_margin == down_right_margin[1]
              down_margin == down_right_margin[2]
              width == old_shape[1]
              height == old_shape[2]
              rows == PySlice(old_shape[1], left_margin, width - right_margin)
              cols == PySlice(old_shape[2], up_margin, height - down_margin)
          IN  [status |-> "ok",
               new_shape |-> new_shape,
               up_left |-> up_left_margin,
               down_right |-> down_right_margin,
               rows |-> rows,
               cols |-> cols,
               out_shape |-> <<Cardinality(rows), Cardinality(cols)>>]

\* resize_image up to cv2.imwrite: cv2.resize(image, closest_shape[::-1])
\* takes (width, height) and yields an image of shape (height, width).
resize_image(shape, vs, r) ==
    LET closest == get_closest_shape(shape[2], shape[1], vs, r)
    IN  IF closest.status = "error"
        THEN [status |-> "error"]
        ELSE [status |-> "ok",
              out_shape |-> Reversed(Reversed(closest.value))]

----------------------------------------------------------------------------
\* main, one run after the other on the same directory.

NoFnCall ==
    /\ f_ratio = <<1, 1>>
    /\ f_shapes = <<>>
    /\ f_shape = <<1, 1>>
    /\ f_pc = "off"
    /\ f_valid = <<>>
    /\ f_closest = [status |-> "none"]
    /\ f_biggest = [status |-> "none"]
    /\ f_crop = [status |-> "none"]

Init ==
    /\ ratio \in Ratios
    /\ margin \in Margins
    /\ disk \in SeqsOf([shape : Shapes, gen : {0}], 0, MaxImages)
    /\ wallpapers = <<>>
    /\ valid_shapes = <<>>
    /\ pc = "start"
    /\ idx = 0
    /\ branch = [j \in DOMAIN disk |-> "none"]
    /\ written = [j \in DOMAIN disk |-> FALSE]
    /\ run = 1
    /\ NoFnCall

\* cv2.imwrite(os.path.join(path, filename), image)
imwrite(d, j, shape) == [d EXCEPT ![j] = [shape |-> shape, gen |-> d[j].gen + 1]]

\* Lines 133-137: list, load, compute the shared valid shapes.  np.max of an
\* empty collection raises.
MainLoad ==
    /\ pc = "start"
    /\ wallpapers' = disk
    /\ IF Len(disk) = 0
       THEN /\ pc' = "error"
            /\ UNCHANGED <<valid_shapes, idx>>
       ELSE /\ valid_shapes' =
                   compute_all_valid_shapes([j \in DOMAIN disk |-> disk[j].shape], ratio)
            /\ pc' = "loop"
            /\ idx' = 1
    /\ UNCHANGED <<ratio, margin, disk, branch, written, run, fnVars>>

Advance ==
    /\ pc' = IF idx = Len(wallpapers) THEN "done" ELSE "loop"
    /\ idx' = idx + 1

\* Variant: the conforming image is written back as it is.
MainSkip_rewrite ==
    /\ pc = "loop"
    /\ LET height == wallpapers[idx].shape[1]
           width == wallpapers[idx].shape[2]
       IN  is_good_ratio(width, height, ratio)
    /\ branch' = [branch EXCEPT ![idx] = "skip"]
    /\ disk' = imwrite(disk, idx, wallpapers[idx].shape)
    /\ Advance
    /\ UNCHANGED <<ratio, margin, wallpapers, valid_shapes, written, run, fnVars>>

\* Lines 140-143.
MainSkip ==
    /\ pc = "loop"
    /\ LET height == wallpapers[idx].shape[1]
           width == wallpapers[idx].shape[2]
       IN  is_good_ratio(width, height, ratio)
    /\ branch' = [branch EXCEPT ![idx] = "skip"]
    /\ Advance
    /\ UNCHANGED <<ratio, margin, disk, wallpapers, valid_shapes, written, run, fnVars>>

\* Lines 144-151.
MainResize ==
    /\ pc = "loop"
    /\ LET height == wallpapers[idx].shape[1]
           width == wallpapers[idx].shape[2]
       IN  /\ ~is_good_ratio(width, height, ratio)
           /\ is_resizable(width, height, margin, ratio)
    /\ branch' = [branch EXCEPT ![idx] = "resize"]
    /\ LET res == resize_image(wallpapers[idx].shape, valid_shapes, ratio)
       IN  IF res.status = "error"
           THEN /\ pc' = "error"
                /\ UNCHANGED <<disk, written, idx>>
           ELSE /\ disk' = imwrite(disk, idx, res.out_shape)
                /\ written' = [written EXCEPT ![idx] = TRUE]
                /\ Advance
    /\ UNCHANGED <<ratio, margin, wallpapers, valid_shapes, run, fnVars>>

\* Lines 152-158.
MainCrop ==
    /\ pc = "loop"
    /\ LET height == wallpapers[idx].shape[1]
           width == wallpapers[idx].shape[2]
       IN  /\ ~is_good_ratio(width, height, ratio)
           /\ ~is_resizable(width, height, margin, ratio)
    /\ branch' = [branch EXCEPT ![idx] = "crop"]
    /\ LET res == crop_image(wallpapers[idx].shape, valid_shapes)
       IN  IF res.status = "error"
           THEN /\ pc' = "error"
                /\ UNCHANGED <<disk, written, idx>>
           ELSE /\ disk' = imwrite(disk, idx, res.out_shape)
                /\ written' = [written EXCEPT ![idx] = TRUE]
                /\ Advance
    /\ UNCHANGED <<ratio, margin, wallpapers, valid_shapes, run, fnVars>>

\* The script is started again on the same directory with the same arguments.
MainRerun ==
    /\ pc \in {"done", "error"}
    /\ run < MaxRuns
    /\ run' = run + 1
    /\ pc' = "start"
    /\ idx' = 0
    /\ wallpapers' = <<>>
    /\ valid_shapes' = <<>>
    /\ branch' = [j \in DOMAIN disk |-> "none"]
    /\ written' = [j \in DOMAIN disk |-> FALSE]
    /\ UNCHANGED <<ratio, margin, disk, fnVars>>

Next == MainLoad \/ MainSkip \/ MainResize \/ MainCrop \/ MainRerun

Spec == Init /\ [][Next]_vars

----------------------------------------------------------------------------
\* Harness: the functions called on their own, on a ratio, a collection of
\* observed shapes and the shape of one image.

NoMainRun ==
    /\ ratio = <<1, 1>>
    /\ margin = <<0, 1>>
    /\ disk = <<>>
    /\ wallpapers = <<>>
    /\ valid_shapes = <<>>
    /\ pc = "off"
    /\ idx = 0
    /\ branch = <<>>
    /\ written = <<>>
    /\ run = 1

FnInit ==
    /\ f_ratio \in Ratios
    /\ f_shapes \in SeqsOf(Shapes, 1, MaxImages)
    /\ f_shape \in Shapes
    /\ f_pc = "init"
    /\ f_valid = <<>>
    /\ f_closest = [status |-> "none"]
    /\ f_biggest = [status |-> "none"]
    /\ f_crop = [status |-> "none"]
    /\ NoMainRun

FnComputeAllValidShapes ==
    /\ f_pc = "init"
    /\ f_valid' = compute_all_valid_shapes(f_shapes, f_ratio)
    /\ f_pc' = "computed"
    /\ UNCHANGED <<f_ratio, f_shapes, f_shape, f_closest, f_biggest, f_crop, mainVars>>

FnGetClosestShape ==
    /\ f_pc = "computed"
    /\ f_closest' = get_closest_shape(f_shape[2], f_shape[1], f_valid, f_ratio)
    /\ f_pc' = "closest"
    /\ UNCHANGED <<f_ratio, f_shapes, f_shape, f_valid, f_biggest, f_crop, mainVars>>

FnGetBiggestShape ==
    /\ f_pc = "computed"
    /\ f_biggest' = get_biggest_shape_contained_in_image(f_shape, f_valid)
    /\ f_pc' = "biggest"
    /\ UNCHANGED <<f_ratio, f_shapes, f_shape, f_valid, f_closest, f_crop, mainVars>>

FnCropImage ==
    /\ f_pc = "computed"
    /\ f_crop' = crop_image(f_shape, f_valid)
    /\ f_pc' = "cropped"
    /\ UNCHANGED <<f_ratio, f_shapes, f_shape, f_valid, f_closest, f_biggest, mainVars>>

FnNext ==
    FnComputeAllValidShapes \/ FnGetClosestShape \/ FnGetBiggestShape \/ FnCropImage

FnSpec == FnInit /\ [][FnNext]_vars

----------------------------------------------------------------------------
\* Properties of the functions (checked under FnSpec).

\* shape fits inside image on both axes.
FitsIn(shape, image) == shape[1] <= image[1] /\ shape[2] <= image[2]

\* C1: when the k=1 shape fits inside the image, the shape returned by
\* get_biggest_shape_contained_in_image fits inside the image on both axes
\* and is the shape of largest k of the sequence that does.
C1_BiggestIsLargestContained ==
    (f_pc = "biggest" /\ f_valid # <<>> /\ FitsIn(f_valid[1], f_shape)) =>
        /\ f_biggest.status = "ok"
        /\ FitsIn(f_biggest.value, f_shape)
        /\ f_biggest.value =
               f_valid[Max({k \in DOMAIN f_valid : FitsIn(f_valid[k], f_shape)})]

\* C2: on a non-empty sequence get_closest_shape returns an element of the
\* sequence, the first one in increasing-k order that minimises the squared
\* distance (vh - height)^2 + (vw - width)^2.
C2_ClosestIsFirstMinimizerInSet ==
    (f_pc = "closest" /\ f_valid # <<>>) =>
        /\ f_closest.status = "ok"
        /\ \E k \in DOMAIN f_valid :
              /\ f_closest.value = f_valid[k]
              /\ \A l \in DOMAIN f_valid :
                    LET dk == (f_valid[k][1] - f_shape[1]) * (f_valid[k][1] - f_shape[1])
                              + (f_valid[k][2] - f_shape[2]) * (f_valid[k][2] - f_shape[2])
                        dl == (f_valid[l][1] - f_shape[1]) * (f_valid[l][1] - f_shape[1])
                              + (f_valid[l][2] - f_shape[2]) * (f_valid[l][2] - f_shape[2])
                    IN  dk <= dl /\ (l < k => dk < dl)

\* C5: the k-th element of the sequence returned by compute_all_valid_shapes
\* is (k*rh, k*rw) in (height, width) order, and the sequence is strictly
\* increasing in both dimensions.
C5_ValidShapesAreMultiples ==
    (f_pc # "init") =>
        /\ \A k \in DOMAIN f_valid : f_valid[k] = <<k * f_ratio[2], k * f_ratio[1]>>
        /\ \A k \in DOMAIN f_valid :
              (k + 1 \in DOMAIN f_valid) =>
                  /\ f_valid[k][1] < f_valid[k + 1][1]
                  /\ f_valid[k][2] < f_valid[k + 1][2]

C5_Witness ==
    /\ f_pc = "computed"
    /\ Len(f_valid) >= 2
    /\ f_ratio[1] # f_ratio[2]
    /\ Len(f_shapes) >= 2

\* C6: in crop_image, on each axis up_left is floor(m/2) and down_right is
\* m - floor(m/2) for m = old - new; on an axis with m >= 0 the positions kept
\* are exactly those from up_left to old - down_right - 1 (floor(m/2) pixels
\* removed from the start, the rest of m from the end); and when new <= old
\* on both axes the image written has height new[1] and width new[2], rows
\* being cut by the height margin and columns by the width margin.
C6_CropMarginSplit ==
    (f_pc = "cropped" /\ f_crop.status = "ok") =>
        LET mh == f_shape[1] - f_crop.new_shape[1]
            mw == f_shape[2] - f_crop.new_shape[2]
        IN  /\ f_crop.up_left = <<mh \div 2, mw \div 2>>
            /\ f_crop.down_right = <<mh - (mh \div 2), mw - (mw \div 2)>>
            /\ f_crop.up_left[1] + f_crop.down_right[1] = mh
            /\ f_crop.up_left[2] + f_crop.down_right[2] = mw
            /\ (mh >= 0) =>
                  f_crop.rows = (mh \div 2)..(f_shape[1] - (mh - (mh \div 2)) - 1)
            /\ (mw >= 0) =>
                  f_crop.cols = (mw \div 2)..(f_shape[2] - (mw - (mw \div 2)) - 1)
            /\ (mh >= 0 /\ mw >= 0) => f_crop.out_shape = f_crop.new_shape

C6_Witness ==
    /\ f_pc = "cropped"
    /\ f_crop.status = "ok"
    /\ f_shape[1] - f_crop.new_shape[1] = 2
    /\ f_shape[2] - f_crop.new_shape[2] = 1
    /\ f_crop.rows = {1}
    /\ f_crop.cols = {0}

\* C9: the length of the sequence returned by compute_all_valid_shapes is
\* floor(max(maxWidth / rw, maxHeight / rh)), the largest k such that
\* k*rw <= maxWidth or k*rh <= maxHeight.
C9_LengthDividesByOwnComponent ==
    (f_pc # "init") =>
        LET maxHeight == Max({f_shapes[j][1] : j \in DOMAIN f_shapes})
            maxWidth == Max({f_shapes[j][2] : j \in DOMAIN f_shapes})
        IN  /\ Len(f_valid) = Max({maxWidth \div f_ratio[1], maxHeight \div f_ratio[2]})
            /\ \A k \in 1..(2 * MaxDim) :
                  (k <= Len(f_valid)) <=>
                      (k * f_ratio[1] <= maxWidth \/ k * f_ratio[2] <= maxHeight)

----------------------------------------------------------------------------
\* Properties of main (checked under Spec).

\* The images the loop of the current run has gone through or is at.
Reached == {j \in DOMAIN wallpapers : branch[j] # "none"}

\* Conforming, as the specification states it: width == floor(height*rw/rh).
Conforming(shape) == shape[2] = (shape[1] * ratio[1]) \div ratio[2]

\* |width/height - rw/rh| <= margin, on exact rationals.
WithinMargin(shape) ==
    LET d == shape[2] * ratio[2] - ratio[1] * shape[1]
    IN  (IF d < 0 THEN -d ELSE d) * margin[2] <= margin[1] * shape[1] * ratio[2]

\* C3: every image main processes takes exactly one branch: skip iff
\* width == floor(height*rw/rh), also when the image is within the margin;
\* otherwise resize iff it is within the margin; otherwise crop.
C3_ExactlyOneBranch ==
    /\ \A j \in DOMAIN wallpapers :
          (pc \in {"loop", "done"} /\ j < idx) => branch[j] # "none"
    /\ \A j \in Reached :
          LET s == wallpapers[j].shape
          IN  /\ branch[j] \in {"skip", "resize", "crop"}
              /\ (branch[j] = "skip") <=> Conforming(s)
              /\ (branch[j] = "resize") <=> (~Conforming(s) /\ WithinMargin(s))
              /\ (branch[j] = "crop") <=> (~Conforming(s) /\ ~WithinMargin(s))

C3_Witness ==
    /\ pc = "done"
    /\ \E j \in Reached :
          /\ branch[j] = "skip"
          /\ WithinMargin(wallpapers[j].shape)
          /\ wallpapers[j].shape[2] * ratio[2] # wallpapers[j].shape[1] * ratio[1]
    /\ \E j \in Reached : branch[j] = "resize"

\* C4: a run of main never writes the file of an image classified
\* Conforming: the file is the one that was loaded, whatever the other images
\* are; in particular no run on an all-Conforming directory writes.
C4_ConformingUntouched ==
    \A j \in DOMAIN wallpapers :
        Conforming(wallpapers[j].shape) =>
            /\ ~written[j]
            /\ disk[j] = wallpapers[j]

C4_Witness ==
    /\ run = 2
    /\ pc = "done"
    /\ Len(wallpapers) = 2
    /\ \A j \in DOMAIN wallpapers : branch[j] = "skip"
    /\ disk[1].gen = 0
    /\ disk[2].gen = 1

\* C7: an image dispatched to crop_image while the k=1 shape exceeds it on
\* some axis ends in an error and its file is not overwritten.
C7_NoContainedShapeIsError ==
    \A j \in Reached :
        (/\ branch[j] = "crop"
         /\ valid_shapes # <<>>
         /\ ~FitsIn(valid_shapes[1], wallpapers[j].shape)) =>
            /\ pc = "error"
            /\ ~written[j]
            /\ disk[j] = wallpapers[j]

\* C8: when the valid-shape set computed for the batch is empty, the run ends
\* in an error and writes no file.
C8_EmptyValidShapesAborts ==
    (pc \in {"loop", "done", "error"} /\ wallpapers # <<>> /\ valid_shapes = <<>>) =>
        /\ pc # "done"
        /\ \A j \in DOMAIN wallpapers : ~written[j] /\ disk[j] = wallpapers[j]

\* C10: every file a run of main writes has, after the write, the dimensions
\* of a member of the batch's valid-shape set and is Conforming.
C10_WrittenFilesConform ==
    \A j \in DOMAIN wallpapers :
        written[j] =>
            /\ \E k \in DOMAIN valid_shapes :
                  /\ valid_shapes[k] = <<k * ratio[2], k * ratio[1]>>
                  /\ disk[j].shape = valid_shapes[k]
            /\ Conforming(disk[j].shape)

====
